---------------------------- MODULE Spec2Model ----------------------------
(***************************************************************************)
(* A model of techdebt-tracker/src/main.rs (CodeHealth Analyzer 2.0):      *)
(*   - CyclomaticComplexityVisitor, a syn::visit::Visit whose visit_stmt   *)
(*     is overridden (lines 52-89);                                        *)
(*   - analyze_file (lines 91-144);                                        *)
(*   - calculate_metrics (lines 146-184);                                  *)
(*   - calculate_maintainability_index (lines 186-202);                    *)
(*   - main: report, then the --max-complexity gate (lines 204-305).       *)
(*                                                                         *)
(* Three specifications share the definitions:                             *)
(*   SpecVisit  one traversal visitor.visit_item_fn(&func), one visit_stmt *)
(*              entry or exit per step;                                    *)
(*   Spec       the whole program run, one directory entry per step;       *)
(*   SpecMI     calculate_maintainability_index on arbitrary CodeMetrics.  *)
(***************************************************************************)
EXTENDS Integers, Sequences, FiniteSets, TLC

VARIABLES
    pc,                     \* position of the program
    argv,                   \* parsed command line (main, lines 231-233)
    walk,                   \* entries WalkDir has still to yield
    seen,                   \* entries already yielded, in order (history)
    total,                  \* calculate_metrics: let mut total
    files,                  \* calculate_metrics: let mut files
    all_functions,          \* calculate_metrics: let mut all_functions
    top_functions,          \* third component returned by calculate_metrics
    maintainability_index,  \* main: let maintainability_index
    stdout,                 \* what println! has written
    stderr,                 \* what eprintln! has written
    exit_code,              \* process exit status, -1 while running
    func,                   \* the syn::ItemFn under traversal
    visitor                 \* the CyclomaticComplexityVisitor and its call stack

vars == <<pc, argv, walk, seen, total, files, all_functions, top_functions,
          maintainability_index, stdout, stderr, exit_code, func, visitor>>

\* ------------------------------------------------------------------------
\* Bounds of the model
\* ------------------------------------------------------------------------

\* longest sequence of directory entries one run walks
MaxFiles == 3

\* largest value of a CodeMetrics counter in SpecMI
MaxCount == 4

\* deepest chain of enclosing constructs in an enumerated function body
MaxDepth == 2

\* ------------------------------------------------------------------------
\* Small helpers
\* ------------------------------------------------------------------------

Max(a, b) == IF a >= b THEN a ELSE b

Min(a, b) == IF a <= b THEN a ELSE b

RECURSIVE SumSeq(_)
SumSeq(s) == IF s = <<>> THEN 0 ELSE Head(s) + SumSeq(Tail(s))

RECURSIVE MaxSeq(_)
MaxSeq(s) == IF s = <<>> THEN 0 ELSE Max(Head(s), MaxSeq(Tail(s)))

RECURSIVE Flatten(_)
Flatten(ss) == IF ss = <<>> THEN <<>> ELSE Head(ss) \o Flatten(Tail(ss))

Map(F(_), s) == [i \in 1..Len(s) |-> F(s[i])]

\* ------------------------------------------------------------------------
\* The syntax tree syn hands to the visitor.  Every node is
\* [kind, kids]: kind is the syn type or enum variant, kids the children
\* in the order the generated syn::visit::visit_* functions walk them.
\* ------------------------------------------------------------------------

N(kind, kids) == [kind |-> kind, kids |-> kids]

Lit == N("Expr::Lit", <<>>)

BlockOf(stmts) == N("Block", stmts)

ExprStmt(e) == N("Stmt::Expr", <<e>>)

LocalStmt(init) == N("Stmt::Local", init)

ExprIf(stmts) == N("Expr::If", <<Lit, BlockOf(stmts)>>)

ExprIfElse(stmts, els) == N("Expr::If", <<Lit, BlockOf(stmts), els>>)

ExprWhile(stmts) == N("Expr::While", <<Lit, BlockOf(stmts)>>)

ExprForLoop(stmts) == N("Expr::ForLoop", <<Lit, BlockOf(stmts)>>)

ExprLoop(stmts) == N("Expr::Loop", <<BlockOf(stmts)>>)

ExprBlock(stmts) == N("Expr::Block", <<BlockOf(stmts)>>)

ExprMatch(arms) == N("Expr::Match", <<Lit>> \o Map(LAMBDA e : N("Arm", <<e>>), arms))

TypePath == N("Type::Path", <<>>)

TypeArray(len) == N("Type::Array", <<TypePath, len>>)

Signature(types) == N("Signature", types)

ItemFn(sig, stmts) == N("Item::Fn", <<sig, BlockOf(stmts)>>)

FnBlock(f) == f.kids[2]

FnSig(f) == f.kids[1]

StmtKinds == {"Stmt::Local", "Stmt::Item", "Stmt::Expr", "Stmt::Macro"}

IsStmt(n) == n.kind \in StmtKinds

\* line 71-74: matches!(stmt, Stmt::Expr(expr, _) if matches!(expr, If | Match | While | ForLoop))
IsBranchStmt(n) ==
    /\ n.kind = "Stmt::Expr"
    /\ n.kids[1].kind \in {"Expr::If", "Expr::Match", "Expr::While", "Expr::ForLoop"}

\* lines 78 and 85: if let Stmt::Expr(syn::Expr::Block(_), _) = stmt
IsBlockStmt(n) ==
    /\ n.kind = "Stmt::Expr"
    /\ n.kids[1].kind = "Expr::Block"

\* ------------------------------------------------------------------------
\* CyclomaticComplexityVisitor
\* ------------------------------------------------------------------------

\* CyclomaticComplexityVisitor::new, with the pending calls of the
\* traversal: <<"visit", node>> is a visit_* call not yet made,
\* <<"leave", stmt>> the part of visit_stmt after syn::visit::visit_stmt
\* returns.  underflow records a `current_nesting -= 1` at 0, which panics
\* in a debug build and wraps in a release build.
NewVisitor ==
    [complexity |-> 1, max_nesting |-> 0, current_nesting |-> 0,
     underflow |-> FALSE, stack |-> <<>>]

Frame(op, node) == [op |-> op, node |-> node]

VisitKids(n) == [i \in 1..Len(n.kids) |-> Frame("visit", n.kids[i])]

\* visit_stmt up to and including the call of syn::visit::visit_stmt
EnterStmt(v, stmt) ==
    LET c == IF IsBranchStmt(stmt) THEN v.complexity + 1 ELSE v.complexity
        n == IF IsBlockStmt(stmt) THEN v.current_nesting + 1 ELSE v.current_nesting
    IN  [v EXCEPT !.complexity = c,
                  !.current_nesting = n,
                  !.max_nesting = Max(v.max_nesting, n),
                  !.stack = VisitKids(stmt) \o <<Frame("leave", stmt)>> \o Tail(v.stack)]

\* visit_stmt after syn::visit::visit_stmt has returned
LeaveStmt(v, stmt) ==
    IF IsBlockStmt(stmt)
    THEN IF v.current_nesting = 0
         THEN [v EXCEPT !.underflow = TRUE, !.stack = Tail(v.stack)]
         ELSE [v EXCEPT !.current_nesting = v.current_nesting - 1,
                        !.stack = Tail(v.stack)]
    ELSE [v EXCEPT !.stack = Tail(v.stack)]

\* a visit_* the visitor does not override: syn's generated function walks
\* the children
DescendNode(v, n) == [v EXCEPT !.stack = VisitKids(n) \o Tail(v.stack)]

\* one pending call of the traversal
VisitStep(v) ==
    LET top == Head(v.stack)
    IN  IF top.op = "leave" THEN LeaveStmt(v, top.node)
        ELSE IF IsStmt(top.node) THEN EnterStmt(v, top.node)
        ELSE DescendNode(v, top.node)

\* visitor.visit_item_fn(&func): syn walks attrs, vis, sig, then block
StartVisit(f) == [NewVisitor EXCEPT !.stack = <<Frame("visit", f)>>]

RECURSIVE RunVisitor(_)
RunVisitor(v) == IF v.stack = <<>> THEN v ELSE RunVisitor(VisitStep(v))

VisitItemFn(f) == RunVisitor(StartVisit(f))

\* ------------------------------------------------------------------------
\* f64, as far as calculate_maintainability_index and kloc use it: NaN, the
\* two infinities, and finite values in thousandths (v = 1500 is 1.5).
\* k names the class; v is 0 unless k = "fin".
\* ------------------------------------------------------------------------

Fin(v) == [k |-> "fin", v |-> v]

NaN == [k |-> "nan", v |-> 0]

PInf == [k |-> "pinf", v |-> 0]

NInf == [k |-> "ninf", v |-> 0]

\* `n as f64`
FromInt(n) == Fin(n * 1000)

FSign(a) ==
    CASE a.k = "pinf" -> 1
      [] a.k = "ninf" -> -1
      [] a.k = "fin"  -> IF a.v > 0 THEN 1 ELSE IF a.v < 0 THEN -1 ELSE 0
      [] OTHER        -> 0

FNeg(a) ==
    CASE a.k = "pinf" -> NInf
      [] a.k = "ninf" -> PInf
      [] a.k = "fin"  -> Fin(-a.v)
      [] OTHER        -> NaN

\* a * b (IEEE 754: 0 * inf is NaN)
FMul(a, b) ==
    IF a.k = "nan" \/ b.k = "nan" THEN NaN
    ELSE IF a.k = "fin" /\ b.k = "fin" THEN Fin((a.v * b.v) \div 1000)
    ELSE IF FSign(a) * FSign(b) = 0 THEN NaN
    ELSE IF FSign(a) * FSign(b) > 0 THEN PInf ELSE NInf

\* a + b (IEEE 754: inf + -inf is NaN)
FAdd(a, b) ==
    IF a.k = "nan" \/ b.k = "nan" THEN NaN
    ELSE IF a.k = "fin" /\ b.k = "fin" THEN Fin(a.v + b.v)
    ELSE IF a.k = "fin" THEN b
    ELSE IF b.k = "fin" THEN a
    ELSE IF a.k = b.k THEN a ELSE NaN

FSub(a, b) == FAdd(a, FNeg(b))

\* a / b (IEEE 754: 0/0 and inf/inf are NaN, x/0 is an infinity)
FDiv(a, b) ==
    IF a.k = "nan" \/ b.k = "nan" THEN NaN
    ELSE IF a.k = "fin" /\ b.k = "fin"
         THEN IF b.v = 0
              THEN IF a.v = 0 THEN NaN ELSE IF a.v > 0 THEN PInf ELSE NInf
              ELSE Fin((a.v * 1000) \div b.v)
    ELSE IF a.k # "fin" /\ b.k # "fin" THEN NaN
    ELSE IF a.k = "fin" THEN Fin(0)
    ELSE IF FSign(a) * (IF FSign(b) < 0 THEN -1 ELSE 1) > 0 THEN PInf ELSE NInf

\* a < b, false when either is NaN
FLess(a, b) ==
    /\ a.k # "nan"
    /\ b.k # "nan"
    /\ \/ a.k = "ninf" /\ b.k # "ninf"
       \/ b.k = "pinf" /\ a.k # "pinf"
       \/ a.k = "fin" /\ b.k = "fin" /\ a.v < b.v

\* f64::max: if one argument is NaN the other is returned
FMax(a, b) ==
    IF a.k = "nan" THEN b
    ELSE IF b.k = "nan" THEN a
    ELSE IF FLess(a, b) THEN b ELSE a

\* f64::min: if one argument is NaN the other is returned
FMin(a, b) ==
    IF a.k = "nan" THEN b
    ELSE IF b.k = "nan" THEN a
    ELSE IF FLess(b, a) THEN b ELSE a

\* the e with 2^e <= v / 1000 < 2^(e + 1), for v > 0
RECURSIVE FloorLog2(_)
FloorLog2(v) ==
    IF v >= 2000 THEN 1 + FloorLog2(v \div 2)
    ELSE IF v < 1000 THEN FloorLog2(v * 2) - 1
    ELSE 0

\* the fractional bits of log2 of m / 4096, m in [4096, 8192), by repeated
\* squaring; the result counts 1024ths
RECURSIVE Log2Frac(_, _)
Log2Frac(m, bits) ==
    IF bits = 0 THEN 0
    ELSE LET sq == (m * m) \div 4096
         IN  IF sq >= 8192
             THEN 2 ^ (bits - 1) + Log2Frac(sq \div 2, bits - 1)
             ELSE Log2Frac(sq, bits - 1)

\* log2 of v / 1000 for v > 0, in thousandths: exact at the powers of two,
\* rounded down to 1/1024 elsewhere
Log2Milli(v) ==
    LET e == FloorLog2(v)
        m == IF e >= 0
             THEN (IF v > 500000 THEN ((v \div (2 ^ e)) * 4096) \div 1000
                   ELSE (v * 4096) \div (1000 * (2 ^ e)))
             ELSE (v * (2 ^ (-e)) * 4096) \div 1000
    IN  e * 1000 + (Log2Frac(m, 10) * 1000) \div 1024

\* f64::log2: NaN below 0, -inf at 0
FLog2(a) ==
    CASE a.k = "nan"  -> NaN
      [] a.k = "ninf" -> NaN
      [] a.k = "pinf" -> PInf
      [] OTHER        -> IF a.v < 0 THEN NaN
                         ELSE IF a.v = 0 THEN NInf
                         ELSE Fin(Log2Milli(a.v))

\* ------------------------------------------------------------------------
\* Inputs: function items, file contents, directory entries, command lines
\* ------------------------------------------------------------------------

\* line 181: .take(20)
TopLimit == 20

Repeat(x, n) == [i \in 1..n |-> x]

EmptyIf == ExprStmt(ExprIf(<<>>))

PlainSig == Signature(<<TypePath>>)

\* fn f(a: [u8; { if true { 1 } else { 2 } }])
SigWithIf == Signature(<<TypeArray(ExprBlock(<<ExprStmt(ExprIfElse(<<ExprStmt(Lit)>>,
                                                           ExprBlock(<<ExprStmt(Lit)>>)))>>))>>)

\* fn f(a: [u8; { { 1 } }])
SigWithBlock == Signature(<<TypeArray(ExprBlock(<<ExprStmt(ExprBlock(<<ExprStmt(Lit)>>))>>))>>)

Sigs == {PlainSig, SigWithIf, SigWithBlock}

FnPlain == ItemFn(PlainSig, <<LocalStmt(<<Lit>>), ExprStmt(Lit)>>)

FnTwoIfWhile == ItemFn(PlainSig, <<EmptyIf, EmptyIf, ExprStmt(ExprWhile(<<>>))>>)

FnLetIf == ItemFn(PlainSig, <<LocalStmt(<<ExprIf(<<ExprStmt(Lit)>>)>>), ExprStmt(Lit)>>)

FnNested ==
    ItemFn(PlainSig,
           <<ExprStmt(ExprBlock(<<ExprStmt(ExprIf(<<ExprStmt(ExprBlock(<<EmptyIf>>))>>)),
                                  ExprStmt(ExprBlock(<<>>))>>)),
             ExprStmt(ExprMatch(<<ExprBlock(<<ExprStmt(Lit)>>), Lit>>))>>)

FnOfComplexity(c) == ItemFn(PlainSig, Repeat(EmptyIf, c - 1))

FnSigIf == ItemFn(SigWithIf, <<>>)

FnItem(name, node) == [kind |-> "Item::Fn", ident |-> name, node |-> node]

OtherItem == [kind |-> "Item::Struct", ident |-> "S", node |-> Lit]

Chars(line) == line \o <<"\n">>

CodeLine == <<"x", " ", "x">>

CommentLine == <<"/", "/", " ", "x">>

IndentedComment == <<" ", "\t", "/", "/">>

TrailingComment == <<"x", " ", "/", "/">>

HalfComment == <<"/", " ", "/">>

Entry(path, is_rs_file, readable, content, parses, items) ==
    [path |-> path, is_rs_file |-> is_rs_file, readable |-> readable,
     content |-> content, parses |-> parses, items |-> items]

\* the files of the project tree
Catalogue ==
    << Entry("src/a.rs", TRUE, TRUE,
             Chars(CommentLine) \o Chars(CodeLine) \o Chars(<<>>) \o CodeLine,
             TRUE,
             <<FnItem("plain", FnPlain), OtherItem, FnItem("branchy", FnTwoIfWhile)>>),
       Entry("src/b.rs", TRUE, FALSE,
             Chars(CommentLine) \o Chars(CodeLine),
             TRUE,
             <<FnItem("unread", FnTwoIfWhile)>>),
       Entry("src/c.rs", TRUE, TRUE,
             Chars(IndentedComment) \o Chars(TrailingComment) \o Chars(HalfComment)
                 \o Chars(CommentLine),
             FALSE, <<>>),
       Entry("src/d.rs", TRUE, TRUE,
             Chars(CodeLine) \o Chars(CodeLine),
             TRUE,
             <<FnItem("five", FnOfComplexity(5))>>),
       Entry("src/e.rs", TRUE, TRUE,
             Chars(CodeLine) \o Chars(CommentLine) \o Chars(CodeLine),
             TRUE,
             <<FnItem("seven", FnOfComplexity(7)), FnItem("nested", FnNested),
               FnItem("eleven", FnOfComplexity(11)), FnItem("ten", FnOfComplexity(10)),
               FnItem("sig", FnSigIf), FnItem("let", FnLetIf)>>),
       Entry("src/many.rs", TRUE, TRUE,
             Chars(CodeLine),
             TRUE,
             [i \in 1..(TopLimit + 1) |->
                 FnItem("g" \o ToString(i), FnOfComplexity(1 + (i % 3) * 3))]),
       Entry("README.md", FALSE, TRUE, Chars(CodeLine), FALSE, <<>>) >>

\* sequences over 1..n of length len without repetition
RECURSIVE Arrangements(_, _)
Arrangements(n, len) ==
    IF len = 0 THEN {<<>>}
    ELSE {Append(a, i) : a \in Arrangements(n, len - 1), i \in 1..n}

Injective(a) == \A i, j \in 1..Len(a) : i # j => a[i] # a[j]

Paths == {Catalogue[i].path : i \in 1..Len(Catalogue)}

\* the file system: what a path names
FileSystem == [p \in Paths |-> LET i == CHOOSE k \in 1..Len(Catalogue) : Catalogue[k].path = p
                               IN  Catalogue[i]]

\* what WalkDir can yield: each path once, in any order
Walks ==
    UNION {{[i \in 1..len |-> Catalogue[a[i]].path] :
              a \in {x \in Arrangements(Len(Catalogue), len) : Injective(x)}} :
           len \in 0..MaxFiles}

None == [some |-> FALSE, val |-> 0]

Some(x) == [some |-> TRUE, val |-> x]

\* --report and --max-complexity
Argvs == [report : {"text", "json"}, max_complexity : {None, Some(5), Some(9)}]

\* ------------------------------------------------------------------------
\* The data of the program (lines 8-50)
\* ------------------------------------------------------------------------

\* CodeMetrics::default()
DefaultCodeMetrics ==
    [loc |-> 0, kloc |-> Fin(0), cyclomatic_complexity |-> 0, functions |-> 0,
     comments |-> 0, longest_function_loc |-> 0, max_nesting_depth |-> 0,
     file_with_max_complexity |-> "", max_file_complexity |-> 0,
     halstead_operators |-> 0, halstead_operands |-> 0,
     halstead_unique_operators |-> 0, halstead_unique_operands |-> 0,
     cyclomatic_distribution |-> <<0, 0, 0>>]

FunctionMetric(file, function, complexity, loc) ==
    [file |-> file, function |-> function, complexity |-> complexity, loc |-> loc]

FileMetrics(file, total_complexity, functions) ==
    [file |-> file, total_complexity |-> total_complexity, functions |-> functions]

\* ------------------------------------------------------------------------
\* analyze_file (lines 91-144)
\* ------------------------------------------------------------------------

\* str::lines: the pieces between "\n", none for an empty tail
RECURSIVE SplitLines(_, _)
SplitLines(content, cur) ==
    IF content = <<>> THEN (IF cur = <<>> THEN <<>> ELSE <<cur>>)
    ELSE IF Head(content) = "\n" THEN <<cur>> \o SplitLines(Tail(content), <<>>)
    ELSE SplitLines(Tail(content), Append(cur, Head(content)))

Lines(content) == SplitLines(content, <<>>)

\* str::trim_start
RECURSIVE TrimStart(_)
TrimStart(line) ==
    IF line # <<>> /\ Head(line) \in {" ", "\t"} THEN TrimStart(Tail(line)) ELSE line

\* str::starts_with
StartsWith(line, prefix) ==
    /\ Len(line) >= Len(prefix)
    /\ SubSeq(line, 1, Len(prefix)) = prefix

\* line 104: |line| line.trim_start().starts_with("//")
IsCommentLine(line) == StartsWith(TrimStart(line), <<"/", "/">>)

RECURSIVE CountComments(_)
CountComments(ls) ==
    IF ls = <<>> THEN 0
    ELSE (IF IsCommentLine(Head(ls)) THEN 1 ELSE 0) + CountComments(Tail(ls))

\* lines 123-127: the index (from 1) of the bucket of a complexity
Bucket(c) == IF c <= 5 THEN 1 ELSE IF c <= 10 THEN 2 ELSE 3

\* lines 110-137: the body of `if let syn::Item::Fn(func) = item`;
\* acc is <<metrics, file_detail>>
AnalyzeFn(acc, item) ==
    LET metrics == acc[1]
        file_detail == acc[2]
        function_loc == Len(FnBlock(item.node).kids)
        v == VisitItemFn(item.node)
        b == Bucket(v.complexity)
    IN  << [metrics EXCEPT
              !.functions = @ + 1,
              !.longest_function_loc = Max(@, function_loc),
              !.cyclomatic_complexity = @ + v.complexity,
              !.max_nesting_depth = Max(@, v.max_nesting),
              !.cyclomatic_distribution[b] = @ + 1],
           [file_detail EXCEPT
              !.total_complexity = @ + v.complexity,
              !.functions = Append(@, FunctionMetric(file_detail.file, item.ident,
                                                     v.complexity, function_loc))] >>

\* lines 108-139: for item in syntax.items
RECURSIVE AnalyzeItems(_, _)
AnalyzeItems(acc, items) ==
    IF items = <<>> THEN acc
    ELSE AnalyzeItems(IF Head(items).kind = "Item::Fn"
                      THEN AnalyzeFn(acc, Head(items)) ELSE acc,
                      Tail(items))

\* AnalyzeSyntax giving up the line counts too when the parse fails
AnalyzeSyntaxResetOnError(acc, entry) ==
    IF entry.parses THEN AnalyzeItems(acc, entry.items)
    ELSE <<DefaultCodeMetrics, acc[2]>>

\* lines 107-140: what a parsed, or unparsable, content adds
AnalyzeSyntax(acc, entry) ==
    IF entry.parses THEN AnalyzeItems(acc, entry.items) ELSE acc

\* analyze_file taking the bytes of a file read_to_string rejects
analyze_file_lossy(file_path) ==
    LET entry == FileSystem[file_path]
        metrics == DefaultCodeMetrics
        file_detail == FileMetrics(file_path, 0, <<>>)
    IN  AnalyzeSyntax(
            << [metrics EXCEPT !.loc = Len(Lines(entry.content)),
                               !.comments = CountComments(Lines(entry.content))],
               file_detail >>,
            entry)

\* analyze_file: <<metrics, file_detail>>
analyze_file(file_path) ==
    LET entry == FileSystem[file_path]
        metrics == DefaultCodeMetrics
        file_detail == FileMetrics(file_path, 0, <<>>)
    IN  IF entry.readable
        THEN AnalyzeSyntax(
                 << [metrics EXCEPT !.loc = Len(Lines(entry.content)),
                                    !.comments = CountComments(Lines(entry.content))],
                    file_detail >>,
                 entry)
        ELSE <<metrics, file_detail>>

\* analyze_file is a function of the file alone: its value for each path of
\* the tree, computed once
Analysis == [p \in Paths |-> analyze_file(p)]

\* ------------------------------------------------------------------------
\* calculate_metrics (lines 146-184)
\* ------------------------------------------------------------------------

\* UpdateMaxFile with >= for >: a tie replaces the file
UpdateMaxFileOnTie(t, fm, detail) ==
    IF fm.cyclomatic_complexity >= t.max_file_complexity
    THEN [t EXCEPT !.max_file_complexity = fm.cyclomatic_complexity,
                   !.file_with_max_complexity = detail.file]
    ELSE t

\* lines 168-171
UpdateMaxFile(t, fm, detail) ==
    IF fm.cyclomatic_complexity > t.max_file_complexity
    THEN [t EXCEPT !.max_file_complexity = fm.cyclomatic_complexity,
                   !.file_with_max_complexity = detail.file]
    ELSE t

\* AddDistribution with the loop ending one bucket early (for i in 0..2)
AddDistributionTwoBuckets(d, e) == [i \in 1..3 |-> IF i <= 2 THEN d[i] + e[i] ELSE d[i]]

\* lines 164-166
AddDistribution(d, e) == [i \in 1..3 |-> d[i] + e[i]]

\* MergeFile assigning longest_function_loc instead of taking the maximum
MergeFileLastLongest(t, fm, detail) ==
    UpdateMaxFile(
        [t EXCEPT
           !.loc = @ + fm.loc,
           !.cyclomatic_complexity = @ + fm.cyclomatic_complexity,
           !.functions = @ + fm.functions,
           !.comments = @ + fm.comments,
           !.longest_function_loc = fm.longest_function_loc,
           !.max_nesting_depth = Max(@, fm.max_nesting_depth),
           !.cyclomatic_distribution = AddDistribution(@, fm.cyclomatic_distribution)],
        fm, detail)

\* lines 157-171: one file folded into total
MergeFile(t, fm, detail) ==
    UpdateMaxFile(
        [t EXCEPT
           !.loc = @ + fm.loc,
           !.cyclomatic_complexity = @ + fm.cyclomatic_complexity,
           !.functions = @ + fm.functions,
           !.comments = @ + fm.comments,
           !.longest_function_loc = Max(@, fm.longest_function_loc),
           !.max_nesting_depth = Max(@, fm.max_nesting_depth),
           !.cyclomatic_distribution = AddDistribution(@, fm.cyclomatic_distribution)],
        fm, detail)

\* SortsBefore with the operands of cmp exchanged: ascending
SortsBeforeAscending(a, b) == a.complexity < b.complexity

\* line 180: the comparator |a, b| b.complexity.cmp(&a.complexity) says a
\* sorts strictly before b
SortsBefore(a, b) == a.complexity > b.complexity

\* slice::sort_by is stable: x goes after every element it does not sort
\* strictly before
RECURSIVE InsertSorted(_, _)
InsertSorted(x, s) ==
    IF s = <<>> THEN <<x>>
    ELSE IF SortsBefore(x, Head(s)) THEN <<x>> \o s
    ELSE <<Head(s)>> \o InsertSorted(x, Tail(s))

RECURSIVE SortBy(_)
SortBy(s) ==
    IF s = <<>> THEN <<>>
    ELSE InsertSorted(s[Len(s)], SortBy(SubSeq(s, 1, Len(s) - 1)))

\* Iterator::take
Take(s, n) == SubSeq(s, 1, Min(n, Len(s)))

\* lines 180-181
TopFunctions(fs) == Take(SortBy(fs), TopLimit)

\* ------------------------------------------------------------------------
\* calculate_maintainability_index (lines 186-202)
\* ------------------------------------------------------------------------

\* Clamp by comparisons, which let a NaN through
ClampByComparison(index) ==
    IF FLess(index, Fin(0)) THEN Fin(0)
    ELSE IF FLess(Fin(100000), index) THEN Fin(100000)
    ELSE index

\* line 201: index.max(0.0).min(100.0)
Clamp(index) == FMin(FMax(index, Fin(0)), Fin(100000))

calculate_maintainability_index(metrics) ==
    IF metrics.functions = 0 THEN Fin(0)
    ELSE LET u == FromInt(metrics.halstead_unique_operators
                          + metrics.halstead_unique_operands)
             halstead_volume == FMul(u, FLog2(u))
             avg_cyclomatic == FDiv(FromInt(metrics.cyclomatic_complexity),
                                    FromInt(metrics.functions))
             index == FSub(FSub(FSub(Fin(171000),
                                     FMul(Fin(5200), FLog2(halstead_volume))),
                                FMul(Fin(230), avg_cyclomatic)),
                           FMul(Fin(16200), FLog2(FromInt(metrics.loc))))
         IN  Clamp(index)

\* Function bodies for SpecVisit: a statement wrapped in up to MaxDepth
\* enclosing constructs.

LeafStmts ==
    {ExprStmt(Lit), LocalStmt(<<>>), N("Stmt::Macro", <<>>), EmptyIf,
     ExprStmt(ExprBlock(<<>>))}

Wrappers ==
    {"if", "else if", "while", "for", "match", "loop", "block", "block;if",
     "let = if", "let = block", "fn"}

Wrap(w, inner) ==
    CASE w = "if"          -> ExprStmt(ExprIf(<<inner>>))
      [] w = "else if"     -> ExprStmt(ExprIfElse(<<>>, ExprIf(<<inner>>)))
      [] w = "while"       -> ExprStmt(ExprWhile(<<inner>>))
      [] w = "for"         -> ExprStmt(ExprForLoop(<<inner>>))
      [] w = "match"       -> ExprStmt(ExprMatch(<<ExprBlock(<<inner>>), Lit>>))
      [] w = "loop"        -> ExprStmt(ExprLoop(<<inner>>))
      [] w = "block"       -> ExprStmt(ExprBlock(<<inner>>))
      [] w = "block;if"    -> ExprStmt(ExprBlock(<<inner, EmptyIf>>))
      [] w = "let = if"    -> LocalStmt(<<ExprIf(<<inner>>)>>)
      [] w = "let = block" -> LocalStmt(<<ExprBlock(<<inner>>)>>)
      [] w = "fn"          -> N("Stmt::Item", <<ItemFn(PlainSig, <<inner>>)>>)

RECURSIVE Nests(_)
Nests(d) ==
    IF d = 0 THEN LeafStmts
    ELSE LET inner == Nests(d - 1)
         IN  inner \cup {Wrap(w, st) : w \in Wrappers, st \in inner}

\* the functions visited: the named ones, every nest of depth <= d under
\* every signature, and every pair of nests of depth <= 1
VisitFns(d) ==
    {FnPlain, FnTwoIfWhile, FnLetIf, FnNested, FnSigIf, FnOfComplexity(11)}
        \cup {ItemFn(sig, <<st>>) : sig \in Sigs, st \in Nests(d)}
        \cup {ItemFn(PlainSig, <<a, b>>) : a, b \in Nests(1)}

\* ------------------------------------------------------------------------
\* SpecVisit: visitor.visit_item_fn(&func) (line 117), call by call
\* ------------------------------------------------------------------------

Idle ==
    /\ argv = [report |-> "text", max_complexity |-> None]
    /\ walk = <<>>
    /\ seen = <<>>
    /\ files = <<>>
    /\ all_functions = <<>>
    /\ top_functions = <<>>
    /\ maintainability_index = Fin(0)
    /\ stdout = <<>>
    /\ stderr = <<>>
    /\ exit_code = -1

InitVisit ==
    /\ Idle
    /\ total = DefaultCodeMetrics
    /\ pc = "visit"
    /\ func \in VisitFns(MaxDepth)
    /\ visitor = StartVisit(func)

VisitUnchanged ==
    UNCHANGED <<argv, walk, seen, total, files, all_functions, top_functions,
                maintainability_index, stdout, stderr, exit_code, func>>

\* lines 70-83
VisitStmtEnter ==
    /\ pc = "visit"
    /\ visitor.stack # <<>>
    /\ Head(visitor.stack).op = "visit"
    /\ IsStmt(Head(visitor.stack).node)
    /\ visitor' = VisitStep(visitor)
    /\ pc' = pc
    /\ VisitUnchanged

\* lines 85-88
VisitStmtLeave ==
    /\ pc = "visit"
    /\ visitor.stack # <<>>
    /\ Head(visitor.stack).op = "leave"
    /\ visitor' = VisitStep(visitor)
    /\ pc' = pc
    /\ VisitUnchanged

\* a visit_* of syn::visit that is not overridden
VisitDescend ==
    /\ pc = "visit"
    /\ visitor.stack # <<>>
    /\ Head(visitor.stack).op = "visit"
    /\ ~IsStmt(Head(visitor.stack).node)
    /\ visitor' = VisitStep(visitor)
    /\ pc' = pc
    /\ VisitUnchanged

\* visit_item_fn returns to line 119
VisitReturn ==
    /\ pc = "visit"
    /\ visitor.stack = <<>>
    /\ pc' = "visited"
    /\ UNCHANGED visitor
    /\ VisitUnchanged

NextVisit == VisitStmtEnter \/ VisitStmtLeave \/ VisitDescend \/ VisitReturn

SpecVisit == InitVisit /\ [][NextVisit]_vars

\* ------------------------------------------------------------------------
\* Spec: main (lines 205-305)
\* ------------------------------------------------------------------------

NoFunc == ItemFn(PlainSig, <<>>)

Init ==
    /\ pc = "walk"
    /\ argv \in Argvs
    /\ walk \in Walks
    /\ seen = <<>>
    /\ total = DefaultCodeMetrics
    /\ files = <<>>
    /\ all_functions = <<>>
    /\ top_functions = <<>>
    /\ maintainability_index = Fin(0)
    /\ stdout = <<>>
    /\ stderr = <<>>
    /\ exit_code = -1
    /\ func = NoFunc
    /\ visitor = NewVisitor

\* lines 152-175: one entry of the walk; r is (fm, detail) of line 155
WalkEntry ==
    /\ pc = "walk"
    /\ walk # <<>>
    /\ LET path == Head(walk)
           r == Analysis[path]
       IN  IF FileSystem[path].is_rs_file
           THEN /\ total' = MergeFile(total, r[1], r[2])
                /\ files' = Append(files, r[2])
                /\ all_functions' = all_functions \o r[2].functions
           ELSE UNCHANGED <<total, files, all_functions>>
    /\ walk' = Tail(walk)
    /\ seen' = Append(seen, Head(walk))
    /\ pc' = pc
    /\ UNCHANGED <<argv, top_functions, maintainability_index, stdout, stderr,
                   exit_code, func, visitor>>

\* lines 178-183: the walk is over
WalkDone ==
    /\ pc = "walk"
    /\ walk = <<>>
    /\ total' = [total EXCEPT !.kloc = FDiv(FromInt(total.loc), Fin(1000000))]
    /\ top_functions' = TopFunctions(all_functions)
    /\ pc' = "index"
    /\ UNCHANGED <<argv, walk, seen, files, all_functions, maintainability_index,
                   stdout, stderr, exit_code, func, visitor>>

\* line 236
Maintainability ==
    /\ pc = "index"
    /\ maintainability_index' = calculate_maintainability_index(total)
    /\ pc' = "report"
    /\ UNCHANGED <<argv, walk, seen, total, files, all_functions, top_functions,
                   stdout, stderr, exit_code, func, visitor>>

\* lines 239-245
JsonReport ==
    [format |-> "json", metrics |-> total,
     maintainability_index |-> maintainability_index,
     files |-> files, top_functions |-> top_functions]

\* lines 247-292
TextReport ==
    [format |-> "text", metrics |-> total,
     average |-> FDiv(FromInt(total.cyclomatic_complexity),
                      FromInt(Max(total.functions, 1))),
     density |-> FMul(FDiv(FromInt(total.comments), FromInt(Max(total.loc, 1))),
                      Fin(100000)),
     maintainability_index |-> maintainability_index,
     top |-> Take(top_functions, 5)]

\* lines 238-293
Report ==
    /\ pc = "report"
    /\ stdout' = Append(stdout, IF argv.report = "json" THEN JsonReport ELSE TextReport)
    /\ pc' = "gate"
    /\ UNCHANGED <<argv, walk, seen, total, files, all_functions, top_functions,
                   maintainability_index, stderr, exit_code, func, visitor>>

\* `as u32` (line 297): every usize this model reaches is below 2^31, where
\* the cast changes nothing
AsU32(n) == n

\* Exceeds with >= for >
ExceedsOrEquals(max_file_complexity, th) == AsU32(max_file_complexity) >= th

\* line 297
Exceeds(max_file_complexity, th) == AsU32(max_file_complexity) > th

\* lines 296-305
Gate ==
    /\ pc = "gate"
    /\ IF argv.max_complexity.some /\ Exceeds(total.max_file_complexity, argv.max_complexity.val)
       THEN /\ stderr' = Append(stderr, <<"exceeds threshold", total.max_file_complexity,
                                          argv.max_complexity.val>>)
            /\ exit_code' = 2
       ELSE /\ stderr' = stderr
            /\ exit_code' = 0
    /\ pc' = "exited"
    /\ UNCHANGED <<argv, walk, seen, total, files, all_functions, top_functions,
                   maintainability_index, stdout, func, visitor>>

Next == WalkEntry \/ WalkDone \/ Maintainability \/ Report \/ Gate

Spec == Init /\ [][Next]_vars

\* ------------------------------------------------------------------------
\* SpecMI: calculate_maintainability_index on any CodeMetrics
\* ------------------------------------------------------------------------

LocValues == (0..MaxCount) \cup {50, 1000, 5000}

InitMI ==
    /\ Idle
    /\ pc = "index"
    /\ func = NoFunc
    /\ visitor = NewVisitor
    /\ \E f, c, u, o \in 0..MaxCount : \E l \in LocValues :
           total = [DefaultCodeMetrics EXCEPT
                       !.functions = f, !.cyclomatic_complexity = c, !.loc = l,
                       !.halstead_unique_operators = u,
                       !.halstead_unique_operands = o]

NextMI == Maintainability

SpecMI == InitMI /\ [][NextMI]_vars

\* ------------------------------------------------------------------------
\* Vocabulary of the properties
\* ------------------------------------------------------------------------

Range(s) == {s[i] : i \in 1..Len(s)}

\* the .rs files among a sequence of walked paths, in order
RECURSIVE SelectPaths(_)
SelectPaths(ps) ==
    IF ps = <<>> THEN <<>>
    ELSE (IF FileSystem[Head(ps)].is_rs_file THEN <<Head(ps)>> ELSE <<>>)
             \o SelectPaths(Tail(ps))

\* the FunctionMetric records of the files analyzed so far
Emitted == Flatten([i \in 1..Len(files) |-> files[i].functions])

Complexities(fs) == [i \in 1..Len(fs) |-> fs[i].complexity]

\* how many elements of a sequence satisfy P
CountIf(P(_), s) == Cardinality({i \in 1..Len(s) : P(s[i])})

\* the number of line terminators of a text, plus one for an unterminated tail
RawLineCount(content) ==
    Cardinality({i \in 1..Len(content) : content[i] = "\n"})
        + (IF content # <<>> /\ content[Len(content)] # "\n" THEN 1 ELSE 0)

FnItemCount(items) == CountIf(LAMBDA it : it.kind = "Item::Fn", items)

\* all orders of a sequence
Orders(s) ==
    {[i \in 1..Len(s) |-> s[q[i]]] :
        q \in {x \in [1..Len(s) -> 1..Len(s)] : \A i, j \in 1..Len(s) : i # j => x[i] # x[j]}}

\* the loop of calculate_metrics over a sequence of .rs paths
RECURSIVE FoldFiles(_, _)
FoldFiles(t, ps) ==
    IF ps = <<>> THEN t
    ELSE FoldFiles(MergeFile(t, Analysis[Head(ps)][1], Analysis[Head(ps)][2]), Tail(ps))

\* the fields of CodeMetrics the walk order must not change
OrderFree(t) ==
    <<t.loc, t.cyclomatic_complexity, t.functions, t.comments, t.longest_function_loc,
      t.max_nesting_depth, t.cyclomatic_distribution, t.max_file_complexity>>

\* ------------------------------------------------------------------------
\* C2
\* ------------------------------------------------------------------------

\* C2: after every file folded into total, and in every contribution
\* analyze_file returned, the three buckets of cyclomatic_distribution sum to
\* functions; bucket 1 counts the functions of complexity <= 5, bucket 2
\* those of 6..10, bucket 3 those above 10; a file that cannot be read or
\* parsed adds to neither.
C2_DistributionSumsToFunctions ==
    /\ SumSeq(total.cyclomatic_distribution) = total.functions
    /\ total.functions = Len(Emitted)
    /\ total.cyclomatic_distribution[1] = CountIf(LAMBDA f : f.complexity <= 5, Emitted)
    /\ total.cyclomatic_distribution[2] =
           CountIf(LAMBDA f : f.complexity >= 6 /\ f.complexity <= 10, Emitted)
    /\ total.cyclomatic_distribution[3] = CountIf(LAMBDA f : f.complexity > 10, Emitted)
    /\ \A i \in 1..Len(seen) :
           LET fm == Analysis[seen[i]][1]
               e == FileSystem[seen[i]]
           IN  /\ SumSeq(fm.cyclomatic_distribution) = fm.functions
               /\ fm.functions = Len(Analysis[seen[i]][2].functions)
               /\ (~e.readable \/ ~e.parses) =>
                      fm.functions = 0 /\ fm.cyclomatic_distribution = <<0, 0, 0>>

\* all three buckets are occupied, and an unreadable and an unparsable file
\* have been folded in
C2_Witness ==
    /\ \A b \in 1..3 : total.cyclomatic_distribution[b] > 0
    /\ \E i \in 1..Len(seen) : FileSystem[seen[i]].is_rs_file /\ ~FileSystem[seen[i]].readable
    /\ Len(files) = 3

\* ------------------------------------------------------------------------
\* C3
\* ------------------------------------------------------------------------

IsLeftOut(f) == CountIf(LAMBDA g : g = f, top_functions) < CountIf(LAMBDA g : g = f, Emitted)

\* C3: once the walk is over, top_functions holds min(20, n) of the n
\* emitted FunctionMetric records, in non-increasing complexity, each no more
\* often than it was emitted, and no record left out has a complexity above
\* that of a record kept.
C3_TopFunctions ==
    pc # "walk" =>
        /\ Len(top_functions) = Min(20, Len(Emitted))
        /\ Len(top_functions) <= 20
        /\ \A i \in 1..(Len(top_functions) - 1) :
               top_functions[i].complexity >= top_functions[i + 1].complexity
        /\ \A f \in Range(top_functions) :
               CountIf(LAMBDA g : g = f, top_functions) <= CountIf(LAMBDA g : g = f, Emitted)
        /\ \A f \in Range(Emitted) :
               IsLeftOut(f) => \A g \in Range(top_functions) : f.complexity <= g.complexity

\* more than 20 records were emitted, some are left out, and the kept ones
\* differ in complexity
C3_Witness ==
    /\ pc = "exited"
    /\ Len(Emitted) > 20
    /\ Len(top_functions) = 20
    /\ \E f \in Range(Emitted) : IsLeftOut(f)
    /\ top_functions[1].complexity > top_functions[20].complexity
    /\ Len(files) >= 2

\* ------------------------------------------------------------------------
\* C4
\* ------------------------------------------------------------------------

\* the sum of the complexities of a file's functions
FileTotal(detail) == SumSeq(Complexities(detail.functions))

FileTotals == [i \in 1..Len(files) |-> FileTotal(files[i])]

\* the first file, in walk order, whose total is the largest total
FirstAtMax ==
    LET m == MaxSeq(FileTotals)
    IN  IF m = 0 THEN ""
        ELSE files[CHOOSE i \in 1..Len(files) :
                       /\ FileTotals[i] = m
                       /\ \A j \in 1..(i - 1) : FileTotals[j] < m].file

MaxFileInvariant ==
    /\ \A i \in 1..Len(files) : files[i].total_complexity = FileTotals[i]
    /\ total.max_file_complexity = MaxSeq(FileTotals)
    /\ total.file_with_max_complexity = FirstAtMax

\* max_file_complexity and file_with_max_complexity change in the same
\* step, to the total and the path of the file just analyzed, and only when
\* that total is above the old maximum
MaxFileStep ==
    (\/ total'.max_file_complexity # total.max_file_complexity
     \/ total'.file_with_max_complexity # total.file_with_max_complexity)
    => /\ total'.max_file_complexity # total.max_file_complexity
       /\ total'.file_with_max_complexity # total.file_with_max_complexity
       /\ Len(files') = Len(files) + 1
       /\ LET detail == files'[Len(files')]
          IN  /\ FileTotal(detail) > total.max_file_complexity
              /\ total'.max_file_complexity = FileTotal(detail)
              /\ total'.file_with_max_complexity = detail.file

\* C4: after every file folded in, max_file_complexity is the largest file
\* total (sum of the file's function complexities) so far and
\* file_with_max_complexity the first file of the walk that reached it ("" and
\* 0 while no file has a positive total); the two fields change only
\* together and only when a file's total is strictly above the maximum, so a
\* later file with an equal total does not replace the earlier one.
C4_MaxFileComplexity == [](MaxFileInvariant) /\ [][MaxFileStep]_vars

\* two files tie at the maximum and the earlier one is named
C4_Witness ==
    /\ Len(files) >= 2
    /\ \E i, j \in 1..Len(files) :
           /\ i < j
           /\ FileTotals[i] = total.max_file_complexity
           /\ FileTotals[j] = total.max_file_complexity
           /\ total.file_with_max_complexity = files[i].file
           /\ files[i].file # files[j].file
    /\ total.max_file_complexity > 0

\* ------------------------------------------------------------------------
\* C5
\* ------------------------------------------------------------------------

ReportEmitted ==
    /\ Len(stdout) = 1
    /\ stdout[1].format = argv.report
    /\ stdout[1].metrics = total
    /\ stdout[1].maintainability_index = maintainability_index

C5_WitnessAtThreshold ==
    /\ pc = "exited"
    /\ exit_code = 0
    /\ argv.max_complexity = Some(5)
    /\ total.max_file_complexity = 5

\* ------------------------------------------------------------------------
\* C6
\* ------------------------------------------------------------------------

Unparsable(p) ==
    /\ FileSystem[p].is_rs_file
    /\ FileSystem[p].readable
    /\ ~FileSystem[p].parses

\* what a sequence of walked paths must add up to
RECURSIVE ExpectedLoc(_)
ExpectedLoc(ps) ==
    IF ps = <<>> THEN 0
    ELSE (IF FileSystem[Head(ps)].readable
          THEN RawLineCount(FileSystem[Head(ps)].content) ELSE 0)
             + ExpectedLoc(Tail(ps))

RECURSIVE ExpectedFunctions(_)
ExpectedFunctions(ps) ==
    IF ps = <<>> THEN 0
    ELSE (IF FileSystem[Head(ps)].readable /\ FileSystem[Head(ps)].parses
          THEN FnItemCount(FileSystem[Head(ps)].items) ELSE 0)
             + ExpectedFunctions(Tail(ps))

\* C6: a file that is read but does not parse contributes its raw line
\* count as loc and its count of "//" lines as comments, 0 in every other
\* counter, extremal field and bucket, and a FileMetrics with total 0 and no
\* functions; the walk goes on, so that total.loc and total.functions
\* account for every file walked, before and after it.
C6_ParseFailure ==
    /\ \A i \in 1..Len(seen) :
           Unparsable(seen[i]) =>
               LET fm == Analysis[seen[i]][1]
                   content == FileSystem[seen[i]].content
               IN  /\ fm = [DefaultCodeMetrics EXCEPT
                              !.loc = RawLineCount(content),
                              !.comments = CountIf(IsCommentLine, Lines(content))]
                   /\ Analysis[seen[i]][2] = FileMetrics(seen[i], 0, <<>>)
    /\ \A j \in 1..Len(files) :
           Unparsable(files[j].file) => files[j] = FileMetrics(files[j].file, 0, <<>>)
    /\ [j \in 1..Len(files) |-> files[j].file] = SelectPaths(seen)
    /\ total.loc = ExpectedLoc(SelectPaths(seen))
    /\ total.functions = ExpectedFunctions(SelectPaths(seen))

\* an unparsable file with lines and comments was folded in, and a file
\* walked after it added functions
C6_Witness ==
    /\ Len(seen) = 2
    /\ Unparsable(seen[1])
    /\ Analysis[seen[1]][1].loc = 4
    /\ Analysis[seen[1]][1].comments = 2
    /\ total.loc > 4
    /\ total.functions > 0
    /\ files[1].functions = <<>>

\* ------------------------------------------------------------------------
\* C7
\* ------------------------------------------------------------------------

Unreadable(p) == FileSystem[p].is_rs_file /\ ~FileSystem[p].readable

\* the step of the walk that takes an unreadable .rs file
UnreadableStep ==
    (pc = "walk" /\ walk # <<>> /\ Unreadable(Head(walk)) /\ walk' # walk)
    => /\ Analysis[Head(walk)] = <<DefaultCodeMetrics, FileMetrics(Head(walk), 0, <<>>)>>
       /\ total' = total
       /\ all_functions' = all_functions
       /\ TopFunctions(all_functions') = TopFunctions(all_functions)
       /\ files' = Append(files, FileMetrics(Head(walk), 0, <<>>))
       /\ walk' = Tail(walk)
       /\ pc' = "walk"
       /\ exit_code' = -1
       /\ stderr' = <<>>

\* C7: a file that cannot be read yields an all-zero contribution and an
\* empty FileMetrics; folding it in changes no field of total and nothing of
\* top_functions, reports nothing, and the walk goes on with the next entry.
C7_ReadFailure == [][UnreadableStep]_vars

\* an unreadable file was folded into non-zero totals and the files after it
\* were analyzed up to the end of the run
C7_Witness ==
    /\ pc = "exited"
    /\ Len(seen) = 3
    /\ Unreadable(seen[2])
    /\ files[1].functions # <<>>
    /\ files[2] = FileMetrics(seen[2], 0, <<>>)
    /\ files[3].functions # <<>>
    /\ total.functions = Len(files[1].functions) + Len(files[3].functions)

\* ------------------------------------------------------------------------
\* C8
\* ------------------------------------------------------------------------

\* C8: when the walk is over, the totals other than file_with_max_complexity
\* are those of every other order of the same files.
C8_OrderIndependence ==
    (pc = "walk" /\ walk = <<>>) =>
        \A ps \in Orders(SelectPaths(seen)) :
            OrderFree(FoldFiles(DefaultCodeMetrics, ps)) = OrderFree(total)

\* three files, two of them with functions, were walked, and another order names
\* another file_with_max_complexity
C8_Witness ==
    /\ pc = "walk"
    /\ walk = <<>>
    /\ Len(files) = 3
    /\ Cardinality({i \in 1..3 : files[i].functions # <<>>}) >= 2
    /\ total.comments > 0
    /\ \E ps \in Orders(SelectPaths(seen)) :
           FoldFiles(DefaultCodeMetrics, ps).file_with_max_complexity
               # total.file_with_max_complexity

\* ------------------------------------------------------------------------
\* C9 (SpecMI)
\* ------------------------------------------------------------------------

InUnitRange(x) == x.k = "fin" /\ x.v >= 0 /\ x.v <= 100000

\* C9: for every CodeMetrics the maintainability index is a number in
\* [0, 100]; it is 0.0 when functions = 0; both hold when the two Halstead
\* unique counters are 0.
C9_IndexRange ==
    pc = "report" =>
        /\ InUnitRange(maintainability_index)
        /\ total.functions = 0 => maintainability_index = Fin(0)
        /\ (total.halstead_unique_operators = 0 /\ total.halstead_unique_operands = 0)
               => InUnitRange(maintainability_index)

\* functions > 0 with both Halstead counters 0: log2(0) makes the index NaN
\* before the clamp
C9_Witness ==
    /\ pc = "report"
    /\ total.functions > 0
    /\ total.loc > 0
    /\ total.halstead_unique_operators = 0
    /\ total.halstead_unique_operands = 0
    /\ maintainability_index = Fin(0)

\* the index takes values strictly inside the range and at both ends
C9_WitnessInside ==
    /\ pc = "report"
    /\ maintainability_index.v > 0
    /\ maintainability_index.v < 100000

\* the aggregator never populates the Halstead counters
HalsteadNeverPopulated ==
    /\ total.halstead_operators = 0
    /\ total.halstead_operands = 0
    /\ total.halstead_unique_operators = 0
    /\ total.halstead_unique_operands = 0

\* ------------------------------------------------------------------------
\* C1 and C10 (SpecVisit)
\* ------------------------------------------------------------------------

\* the positions of a tree: the child indices from the root down
RECURSIVE TreePaths(_)
TreePaths(n) ==
    {<<>>} \cup UNION {{<<i>> \o p : p \in TreePaths(n.kids[i])} : i \in 1..Len(n.kids)}

RECURSIVE NodeAt(_, _)
NodeAt(n, p) == IF p = <<>> THEN n ELSE NodeAt(n.kids[Head(p)], Tail(p))

\* the statements of a tree, at any depth, whose outermost expression is an
\* if, a match, a while or a for
BranchStmtCount(n) ==
    Cardinality({p \in TreePaths(n) : IsBranchStmt(NodeAt(n, p))})

\* the bare-block statements on the way from the root to position p
BlockStmtsAbove(n, p) ==
    Cardinality({k \in 0..Len(p) : IsBlockStmt(NodeAt(n, SubSeq(p, 1, k)))})

\* the largest number of bare-block statements enclosing one another
BlockStmtDepth(n) ==
    LET ds == {BlockStmtsAbove(n, p) : p \in TreePaths(n)}
    IN  CHOOSE d \in ds : \A e \in ds : e <= d

\* the bare-block statements visit_stmt has entered and not yet left
OpenBlockStmts ==
    CountIf(LAMBDA fr : fr.op = "leave" /\ IsBlockStmt(fr.node), visitor.stack)

\* C1: the complexity the visitor reports for a function is 1 + the number
\* of statements of its body, at any block depth, whose outermost expression
\* is an if, a match, a while or a for; so it is at least 1, exactly 1 for a
\* function with no such statement, and 4 for two ifs and a while in
\* sequence; a conditional in the initializer of a let adds nothing.
C1_ComplexityOfBody ==
    /\ visitor.complexity >= 1
    /\ pc = "visited" =>
           /\ visitor.complexity = 1 + BranchStmtCount(FnBlock(func))
           /\ BranchStmtCount(FnBlock(func)) = 0 => visitor.complexity = 1
           /\ func = FnTwoIfWhile => visitor.complexity = 4
           /\ func = FnLetIf => visitor.complexity = 1

\* the same count taken over the whole item, signature included
ComplexityOfItem ==
    /\ visitor.complexity >= 1
    /\ pc = "visited" => visitor.complexity = 1 + BranchStmtCount(func)

\* C1 for the functions whose signature holds no statement
ComplexityOfBodyPlainSig ==
    (pc = "visited" /\ BranchStmtCount(FnSig(func)) = 0) =>
        /\ visitor.complexity = 1 + BranchStmtCount(FnBlock(func))
        /\ func = FnTwoIfWhile => visitor.complexity = 4
        /\ func = FnLetIf => visitor.complexity = 1

\* C10: during the traversal of a function the depth is the number of
\* bare-block statements entered and not left, never goes below 0 and never
\* above max_nesting; it is 0 when the traversal ends, and max_nesting is then
\* the largest number of bare-block statements of the body enclosing one
\* another (the block of an if, while, for or match arm is no statement and
\* does not count).
C10_NestingOfBody ==
    /\ ~visitor.underflow
    /\ visitor.current_nesting >= 0
    /\ visitor.current_nesting = OpenBlockStmts
    /\ visitor.max_nesting >= visitor.current_nesting
    /\ pc = "visited" =>
           /\ visitor.current_nesting = 0
           /\ visitor.max_nesting = BlockStmtDepth(FnBlock(func))

\* the balance, with the depth taken over the whole item
NestingOfItem ==
    /\ ~visitor.underflow
    /\ visitor.current_nesting = OpenBlockStmts
    /\ visitor.max_nesting >= visitor.current_nesting
    /\ pc = "visited" =>
           /\ visitor.current_nesting = 0
           /\ visitor.max_nesting = BlockStmtDepth(func)

\* C10 for the functions whose signature holds no statement
NestingOfBodyPlainSig ==
    (pc = "visited" /\ BlockStmtDepth(FnSig(func)) = 0) =>
        visitor.max_nesting = BlockStmtDepth(FnBlock(func))

=============================================================================
